---- MODULE Spec2Model ----
(***************************************************************************)
(* Model of src/lightcone/ethereum/metaMask.js: personalSign and the       *)
(* signature verification strategies it sequences.                         *)
(*                                                                         *)
(* One personalSign run at a time.  A run issues calls to the provider     *)
(* (web3) and continues in the provider's callbacks; every callback, with  *)
(* the continuation of the awaiting async function it wakes, is one        *)
(* action.  invoked, calls, results and resolved record what the run did.  *)
(***************************************************************************)
EXTENDS Integers, Sequences, FiniteSets, TLC

\* number of distinct key-pair addresses
NumIds == 2

Ids == 1..NumIds

\* the JavaScript value undefined, where a string is expected
Undefined == "undefined"

----------------------------------------------------------------------------
(* Values *)

\* A hex address string: which 20 bytes (id) and whether it is written with
\* upper-case hex digits (a checksummed address) or all lower-case.
Addresses == [id : Ids, upper : BOOLEAN]

\* no address (an absent parameter)
NoAddress == [id |-> -1, upper |-> FALSE]

\* 0x0000000000000000000000000000000000000000
ZeroAddress == [id |-> 0, upper |-> FALSE]

\* the address of a public key nobody holds: what recovery yields from a
\* signature made over another hash or taken with the other recovery id
StrayAddress == [id |-> NumIds + 1, upper |-> FALSE]

\* String.prototype.toLowerCase on an address string
toLowerCase(a) == [a EXCEPT !.upper = FALSE]

Msgs == {"hello"}

\* Byte strings derived from a message: kind says how.
NoBytes == [kind |-> "none", msg |-> ""]

\* toBuffer(msg): the raw bytes of the message
toBuffer(msg) == [kind |-> "raw", msg |-> msg]

\* keccak256(bytes)
keccak256(b) ==
    [kind |-> IF b.kind = "raw" THEN "keccak" ELSE "opaque", msg |-> b.msg]

\* hashPersonalMessage(bytes): keccak256 of the prefixed bytes
hashPersonalMessage(b) ==
    [kind |-> CASE b.kind = "raw" -> "personal"
                [] b.kind = "keccak" -> "personalKeccak"
                [] OTHER -> "opaque",
     msg |-> b.msg]

\* The hashes a signer may have signed.
SignedKinds == {"personal", "personalKeccak"}

\* An RPC signature string r ++ s ++ v.  len is its length in bytes, v its
\* last byte; r and s are abstracted to what they determine: the address of
\* the key that made them (signer, 0 when r, s are no valid curve values), the
\* hash they were made over (kind) and the recovery id that recovers that key
\* (parity).
NoSig == [len |-> 0, v |-> 0, signer |-> 0, kind |-> "none", parity |-> 0]

RpcSigs ==
    [len : {65}, v : {0, 1, 27, 28, 29}, signer : Ids, kind : SignedKinds,
     parity : {0, 1}]
    \cup [len : {65}, v : {27, 28}, signer : {0}, kind : {"none"}, parity : {0}]
    \cup [len : {64}, v : {27}, signer : {1}, kind : {"personal"}, parity : {0}]

\* fromRpcSig(sig) throws unless the string holds 65 bytes
fromRpcSigThrows(sig) == sig.len # 65

\* fromRpcSig(sig): split into r, s, v; a v below 27 is raised by 27
fromRpcSig(sig) == [sig EXCEPT !.v = IF sig.v < 27 THEN sig.v + 27 ELSE sig.v]

\* ecrecover(hash, v, r, s) throws on a recovery id other than 27, 28 and on
\* r, s that are no valid curve values
ecrecoverThrows(hash, signature) ==
    signature.v \notin {27, 28} \/ signature.signer = 0

\* toHex(pubToAddress(ecrecover(hash, v, r, s))): the lower-case address of the
\* recovered key
ecrecoverAddress(hash, signature) ==
    IF hash.kind = signature.kind /\ signature.v - 27 = signature.parity
    THEN [id |-> signature.signer, upper |-> FALSE]
    ELSE StrayAddress

----------------------------------------------------------------------------
(* The ABI codec (../ethereum/contracts) *)

\* the first four bytes of keccak256 of the method signature, as hex
Selector(method) ==
    CASE method = "isValidSignature(bytes,bytes)" -> "0x20c13b0b"
      [] method = "isValidSignature(bytes32,bytes)" -> "0x1626ba7e"
      [] method = "getKeyData" -> "0x8d431198"
      [] OTHER -> "0x"

NoData ==
    [method |-> "", selector |-> "", _data |-> NoBytes, _signature |-> NoSig,
     _account |-> NoAddress, _index |-> 0]

\* ABI.Contracts.ContractWallet.encodeInputs(method, {_data, _signature})
encodeIsValidSignature(method, data, signature) ==
    [NoData EXCEPT !.method = method, !.selector = Selector(method),
                   !._data = data, !._signature = signature]

\* ABI.Contracts.ContractWallet.encodeInputs('getKeyData', {_account, _index})
encodeGetKeyData(account, index) ==
    [NoData EXCEPT !.method = "getKeyData", !.selector = Selector("getKeyData"),
                   !._account = account, !._index = index]

\* data.slice(0, 10): "0x" and the four selector bytes
slice10(data) == data.selector

\* What a contract may return from isValidSignature, as
\* toHex(toBuffer(decodeOutputs(...)[0])) gives it.
MagicValues == {"0x20c13b0b", "0x1626ba7e", "0x00000000"}

----------------------------------------------------------------------------
(* The provider *)

NoErr == "null"
SignErrors == {"User denied message signature", "Provider disconnected"}
CallErrors == {"execution reverted"}

\* window.imToken and window.ethereum
Envs == [imToken : BOOLEAN, ethereum : {Undefined, "plain", "isImToken"}]

WalletTypes == {"WalletLink", "Authereum", "MetaMask"}

\* a call handed to the provider
GatewayCall(op, to, msg, sig, data) ==
    [op |-> op, to |-> to, msg |-> msg, sig |-> sig, data |-> data]

\* what the provider passes to the callback of web3.eth.personal.sign
SignResponses ==
    {[err |-> e, result |-> NoSig] : e \in SignErrors}
    \cup {[err |-> NoErr, result |-> s] : s \in RpcSigs}

\* the arguments a strategy's callback got: err and the address or the
\* decoded output returned
Reply(err, address, output) ==
    [err |-> err, address |-> address, output |-> output]

\* walletLinkValid has no callback
NoReply == Reply(NoErr, NoAddress, "")

\* ... of web3.eth.personal.ecRecover
EcRecoverResponses ==
    {[err |-> e, address |-> NoAddress] : e \in CallErrors}
    \cup {[err |-> NoErr, address |-> a] : a \in Addresses \cup {StrayAddress}}

\* ... of web3.eth.call on isValidSignature
IsValidSignatureResponses ==
    {[err |-> e, output |-> ""] : e \in CallErrors}
    \cup {[err |-> NoErr, output |-> o] : o \in MagicValues}

\* ... of web3.eth.call on getKeyData
GetKeyDataResponses ==
    {[err |-> e, address |-> NoAddress] : e \in CallErrors}
    \cup {[err |-> NoErr, address |-> a] : a \in Addresses \cup {ZeroAddress}}

----------------------------------------------------------------------------
(* The verification strategies.  Each is a promise: it issues at most one    *)
(* provider call and resolves, in the call's callback, with {result: bool}  *)
(* or {error: err}; threw marks a body that throws instead of resolving.    *)

Resolved(b) ==
    [result |-> IF b THEN "true" ELSE "false", error |-> Undefined,
     threw |-> FALSE]
Errored(e) == [result |-> Undefined, error |-> e, threw |-> FALSE]
Threw == [result |-> Undefined, error |-> Undefined, threw |-> TRUE]

\* ecRecover: web3.eth.personal.ecRecover(msg, sig, cb)
ecRecoverCall(account, msg, sig) ==
    GatewayCall("personal.ecRecover", NoAddress, msg, sig, NoData)

\* ecRecover: the callback
ecRecoverValid(err, address, account) ==
    IF err = NoErr
    THEN Resolved(toLowerCase(address) = toLowerCase(account))
    ELSE Errored(err)

\* contractWalletValidate: web3.eth.call({to: account, data}, cb)
contractWalletValidateCall(account, msg, sig) ==
    GatewayCall("eth.call", account, "", NoSig,
                encodeIsValidSignature("isValidSignature(bytes,bytes)",
                                       hashPersonalMessage(toBuffer(msg)), sig))

\* contractWalletValidate taking any answer for a valid one
contractWalletValidateValidAny(err, output, data) ==
    IF err = NoErr THEN Resolved(TRUE) ELSE Errored(err)

\* contractWalletValidate: the callback
contractWalletValidateValid(err, output, data) ==
    IF err = NoErr THEN Resolved(output = slice10(data)) ELSE Errored(err)

\* contractWalletValidate2: web3.eth.call({to: account, data}, cb)
contractWalletValidate2Call(account, msg, sig) ==
    GatewayCall("eth.call", account, "", NoSig,
                encodeIsValidSignature("isValidSignature(bytes32,bytes)",
                                       hashPersonalMessage(toBuffer(msg)), sig))

\* contractWalletValidate2 expecting the magic value of the other variant
contractWalletValidate2ValidOther(err, output, data) ==
    IF err = NoErr THEN Resolved(output = "0x20c13b0b") ELSE Errored(err)

\* contractWalletValidate2: the callback
contractWalletValidate2Valid(err, output, data) ==
    IF err = NoErr THEN Resolved(output = slice10(data)) ELSE Errored(err)

\* the MyKey registry contract, 0xADc92d1fD878580579716d944eF3460E241604b7
myKeyContract == [id |-> NumIds + 2, upper |-> TRUE]

\* mykeyWalletValid: web3.eth.call({to: myKeyContract, data}, cb)
mykeyWalletValidCall(account, msg, sig) ==
    GatewayCall("eth.call", myKeyContract, "", NoSig,
                encodeGetKeyData(account, 3))

\* mykeyWalletValid comparing the addresses as they are written
mykeyWalletValidValidCase(err, address, msg, sig) ==
    IF err = NoErr
    THEN LET hash == hashPersonalMessage(keccak256(toBuffer(msg)))
             signature == fromRpcSig(sig)
         IN  IF fromRpcSigThrows(sig) \/ ecrecoverThrows(hash, signature)
             THEN Threw
             ELSE Resolved(ecrecoverAddress(hash, signature) = address)
    ELSE Errored(err)

\* mykeyWalletValid: the callback; fromRpcSig and ecrecover throw in it
mykeyWalletValidValid(err, address, msg, sig) ==
    IF err = NoErr
    THEN LET hash == hashPersonalMessage(keccak256(toBuffer(msg)))
             signature == fromRpcSig(sig)
         IN  IF fromRpcSigThrows(sig) \/ ecrecoverThrows(hash, signature)
             THEN Threw
             ELSE Resolved(toLowerCase(ecrecoverAddress(hash, signature))
                           = toLowerCase(address))
    ELSE Errored(err)

\* authereumValid hashing the message as contractWalletValidate does
authereumValidCallHashed(account, msg, sig) ==
    GatewayCall("eth.call", account, "", NoSig,
                encodeIsValidSignature("isValidSignature(bytes,bytes)",
                                       hashPersonalMessage(toBuffer(msg)), sig))

\* authereumValid: web3.eth.call({to: account, data}, cb), _data unhashed
authereumValidCall(account, msg, sig) ==
    GatewayCall("eth.call", account, "", NoSig,
                encodeIsValidSignature("isValidSignature(bytes,bytes)",
                                       toBuffer(msg), sig))

\* authereumValid: the callback
authereumValidValid(err, output, data) ==
    IF err = NoErr THEN Resolved(output = slice10(data)) ELSE Errored(err)

\* walletLinkValid: local recovery in the promise executor, no provider call;
\* a throw in the executor rejects the promise
walletLinkValid(account, msg, sig) ==
    LET hash == hashPersonalMessage(toBuffer(msg))
        signature == fromRpcSig(sig)
    IN  IF fromRpcSigThrows(sig) \/ ecrecoverThrows(hash, signature)
        THEN Threw
        ELSE Resolved(toLowerCase(ecrecoverAddress(hash, signature))
                      = toLowerCase(account))

----------------------------------------------------------------------------
(* sign, signEthereumTx, signEip712, sendTransaction: values *)

\* longest error message, in words
MaxMsgLen == 2

\* largest chain id
MaxChainId == 2

\* ' at ', which starts the stack frames in an error message
Marker == " at "

\* An error message is a sequence of words.
Words == {"denied", Marker}
Messages == UNION {[1..n -> Words] : n \in 0..MaxMsgLen}

\* no error (err is null, error is undefined)
NoMessage == <<"undefined">>

\* m.indexOf(w): the position before the first w, -1 when there is none
indexOf(m, w) ==
    IF \E i \in DOMAIN m : m[i] = w
    THEN (CHOOSE i \in DOMAIN m : m[i] = w /\ \A j \in 1..(i - 1) : m[j] # w) - 1
    ELSE -1

\* m.substring(0, n): a negative n counts as 0, one beyond the end as the end
substring0(m, n) ==
    SubSeq(m, 1, IF n < 0 THEN 0 ELSE IF n > Len(m) THEN Len(m) ELSE n)

\* A hex string: its digits and whether "0x" precedes them.
Hex(prefixed, digits) == [prefixed |-> prefixed, digits |-> digits]
NoHex == Hex(FALSE, "")

\* addHexPrefix(h)
addHexPrefix(h) == [h EXCEPT !.prefixed = TRUE]

\* The string web3.eth.sign returns, "0x" r s v: the 64 digits of r, the 64
\* digits of s and the byte v.
EthSigs == [r : {"r1", "r2"}, s : {"s1", "s2"}, v : {0, 1, 27, 28, 29}]
NoEthSig == [r |-> "", s |-> "", v |-> 0]

ChainIds == 0..MaxChainId

\* What a function returns under result: r, s, v of a signature, with
\* chainId and data when it is a serialized transaction; data alone when it
\* is what the provider returned.
Value(r, s, v, chainId, data) ==
    [r |-> r, s |-> s, v |-> v, chainId |-> chainId, data |-> data]
NoValue == Value(NoHex, NoHex, 0, -1, Undefined)

\* what the provider may pass as result or transactionHash
ProviderData == {"0xabc", "", Undefined}

\* a value in a condition: '' and undefined are falsy
TruthyData(d) == d # "" /\ d # Undefined

\* the arguments of a callback: err, the error of the JSON-RPC response, the
\* signature, the result
FnReply(err, rpcError, ethSig, data) ==
    [err |-> err, rpcError |-> rpcError, sig |-> ethSig, data |-> data]
NoFnReply == FnReply(NoMessage, NoMessage, NoEthSig, Undefined)

\* ... of web3.eth.sign
EthSignReplies ==
    {FnReply(m, NoMessage, NoEthSig, Undefined) : m \in Messages}
    \cup {FnReply(NoMessage, NoMessage, x, Undefined) : x \in EthSigs}

\* ... of web3.currentProvider.sendAsync
SendAsyncReplies ==
    {FnReply(m, NoMessage, NoEthSig, Undefined) : m \in Messages}
    \cup {FnReply(NoMessage, m, NoEthSig, Undefined) : m \in Messages}
    \cup {FnReply(NoMessage, NoMessage, NoEthSig, d) : d \in ProviderData}

\* ... of web3.eth.sendTransaction
SendTransactionReplies ==
    {FnReply(m, NoMessage, NoEthSig, Undefined) : m \in Messages}
    \cup {FnReply(NoMessage, NoMessage, NoEthSig, d) : d \in ProviderData}

\* the arguments that matter: the chain id of rawTx
NoArgs == [chainId |-> -1]

\* How a call ended.  kind: "none", "pending", "return" (result or error is
\* what the returned object holds) or "throw" (errType and error are the
\* class and the message of what was thrown).
Out(kind, result, error, errType) ==
    [kind |-> kind, result |-> result, error |-> error, errType |-> errType]
NoOut == Out("none", NoValue, NoMessage, "")
PendingOut == Out("pending", NoValue, NoMessage, "")

\* return {result: value}
Return(value) == Out("return", value, NoMessage, "")

\* return {error: {message}}
ReturnError(message) == Out("return", NoValue, message, "")

\* throw new Error(message)
Throw(message) == Out("throw", NoValue, message, "Error")

\* reading .message of undefined
ThrowTypeError == Out("throw", NoValue, NoMessage, "TypeError")

\* sign without the ledger fix
signOutNoFix(err, result) ==
    IF err = NoMessage
    THEN Return(Value(Hex(TRUE, result.r), addHexPrefix(Hex(FALSE, result.s)),
                      result.v, -1, Undefined))
    ELSE ReturnError(substring0(err, indexOf(err, Marker)))

\* sign: the callback of web3.eth.sign
signOut(err, result) ==
    IF err = NoMessage
    THEN LET r == Hex(TRUE, result.r)
             s == addHexPrefix(Hex(FALSE, result.s))
             v == result.v
         IN  Return(Value(r, s, IF v = 0 \/ v = 1 THEN v + 27 ELSE v, -1,
                          Undefined))
    ELSE ReturnError(substring0(err, indexOf(err, Marker)))

\* signEthereumTx adding the chain id once
signEthereumTxOutHalf(chainId, response) ==
    IF response.error = NoMessage
    THEN LET signature == response.result
         IN  Return(Value(signature.r, signature.s,
                          signature.v + chainId + 8, chainId, "serialized"))
    ELSE Throw(response.error)

\* signEthereumTx: after sign returned response
signEthereumTxOut(chainId, response) ==
    IF response.error = NoMessage
    THEN LET signature == response.result
         IN  Return(Value(signature.r, signature.s,
                          signature.v + chainId * 2 + 8, chainId, "serialized"))
    ELSE Throw(response.error)

\* signEip712: the callback of sendAsync
signEip712Response(err, rpcError, data) ==
    IF err # NoMessage THEN ReturnError(err)
    ELSE IF rpcError # NoMessage THEN ReturnError(rpcError)
    ELSE Return(Value(NoHex, NoHex, 0, -1, data))

\* signEip712: after the callback resolved response
signEip712Out(response) ==
    IF TruthyData(response.result.data) THEN response
    ELSE IF response.error = NoMessage THEN ThrowTypeError
    ELSE Throw(response.error)

\* sendTransaction: the callback of web3.eth.sendTransaction
sendTransactionResponse(err, data) ==
    IF err = NoMessage THEN Return(Value(NoHex, NoHex, 0, -1, data))
    ELSE ReturnError(err)

\* sendTransaction: after the callback resolved response
sendTransactionOut(response) ==
    IF TruthyData(response.result.data) THEN response
    ELSE IF response.error = NoMessage THEN ThrowTypeError
    ELSE Throw(response.error)

----------------------------------------------------------------------------
(* personalSign *)

VARIABLES
    pc,          \* where the run is: "idle", "signing", the strategy awaited,
                 \* "done" (resolve was called), "hung" (a throw ended it)
    env,         \* window.imToken, window.ethereum
    account,     \* personalSign's arguments
    msg,
    walletType,
    signErr,     \* err, the error the provider's sign callback got
    sig,         \* result, the signature the provider returned
    inflight,    \* provider calls whose callback has not run yet
    calls,       \* provider calls issued by this run, in order
    invoked,     \* strategies invoked by this run, in order
    results,     \* what each invoked strategy settled with, in order
    replies,     \* what the provider passed to each strategy's callback
    resolved     \* the values resolve() of personalSign's promise was called with

\* the state of the personalSign run
runVars ==
    <<pc, account, msg, walletType, signErr, sig, inflight, calls, invoked,
      results, replies, resolved>>

\* sign, signEthereumTx, signEip712, sendTransaction: one call at a time
VARIABLES
    fn,          \* the function called, "none" before any
    fnArgs,      \* its arguments
    fnReply,     \* what the provider passed to its callback
    fnOut        \* how the call ended: returned, threw, or still pending

fnVars == <<fn, fnArgs, fnReply, fnOut>>

\* personalSign requests running side by side
VARIABLES
    reqs,        \* the closure of each request
    order,       \* the requests in the order they were made
    wire         \* provider calls of the requests awaiting their callback

concVars == <<reqs, order, wire>>

vars == <<env, runVars, fnVars, concVars>>

Strategies ==
    {"ecRecover", "contractWalletValidate", "contractWalletValidate2",
     "mykeyWalletValid", "authereumValid", "walletLinkValid"}

\* resolve({sig: result})
Accept(result) == [sig |-> result, error |-> Undefined]

\* resolve({error: e})
Reject(e) == [sig |-> NoSig, error |-> e]

\* a step of personalSign: what it resolves with (nothing, or one value) and
\* what it awaits next
Step(next, resolve) == [next |-> next, resolve |-> resolve]

\* !!window.imToken || (window.ethereum && window.ethereum.isImToken)
isImToken(e) == e.imToken \/ (e.ethereum # Undefined /\ e.ethereum = "isImToken")

\* valid.result as a condition
Truthy(valid) == valid.result = "true"

\* personalSign without the test of err
personalSignFirstIgnoresErr(err, result, e, wt) ==
    IF isImToken(e) THEN Step("done", <<Accept(result)>>)
    ELSE IF wt = "WalletLink" THEN Step("walletLinkValid", <<>>)
    ELSE IF wt = "Authereum" THEN Step("authereumValid", <<>>)
    ELSE Step("ecRecover", <<>>)

\* personalSign without the WalletLink branch
personalSignFirstNoWalletLink(err, result, e, wt) ==
    IF err = NoErr
    THEN IF isImToken(e) THEN Step("done", <<Accept(result)>>)
         ELSE IF wt = "Authereum" THEN Step("authereumValid", <<>>)
         ELSE Step("ecRecover", <<>>)
    ELSE Step("done", <<Reject(err)>>)

\* personalSign testing walletType before the imToken environment
personalSignFirstHintFirst(err, result, e, wt) ==
    IF err = NoErr
    THEN IF wt = "WalletLink" THEN Step("walletLinkValid", <<>>)
         ELSE IF wt = "Authereum" THEN Step("authereumValid", <<>>)
         ELSE IF isImToken(e) THEN Step("done", <<Accept(result)>>)
         ELSE Step("ecRecover", <<>>)
    ELSE Step("done", <<Reject(err)>>)

\* personalSign: the sign callback, up to the first strategy
personalSignFirst(err, result, e, wt) ==
    IF err = NoErr
    THEN IF isImToken(e) THEN Step("done", <<Accept(result)>>)
         ELSE IF wt = "WalletLink" THEN Step("walletLinkValid", <<>>)
         ELSE IF wt = "Authereum" THEN Step("authereumValid", <<>>)
         ELSE Step("ecRecover", <<>>)
    ELSE Step("done", <<Reject(err)>>)

\* the chain of the generic path below a strategy that did not verify
personalSignFallThrough(stage) ==
    CASE stage = "walletLinkValid" ->
             Step("done", <<Reject("Failed to valid using WalletLink")>>)
      [] stage = "authereumValid" ->
             Step("done", <<Reject("invalid sig using Authereum")>>)
      [] stage = "ecRecover" -> Step("contractWalletValidate", <<>>)
      [] stage = "contractWalletValidate" -> Step("contractWalletValidate2", <<>>)
      [] stage = "contractWalletValidate2" -> Step("mykeyWalletValid", <<>>)
      [] stage = "mykeyWalletValid" -> Step("done", <<Reject("invalid sig")>>)

\* personalSign resolving on success without leaving the chain (no else)
personalSignNextKeepsGoing(stage, valid, result) ==
    IF valid.threw THEN Step("hung", <<>>)
    ELSE IF Truthy(valid)
    THEN Step(IF stage = "ecRecover" THEN "contractWalletValidate" ELSE "done",
              <<Accept(result)>>)
    ELSE personalSignFallThrough(stage)

\* personalSign testing valid where it should test valid.result
personalSignNextAcceptsError(stage, valid, result) ==
    IF valid.threw THEN Step("hung", <<>>)
    ELSE Step("done", <<Accept(result)>>)

\* personalSign ending the chain at a strategy's error
personalSignNextErrorEnds(stage, valid, result) ==
    IF valid.threw THEN Step("hung", <<>>)
    ELSE IF Truthy(valid) THEN Step("done", <<Accept(result)>>)
    ELSE IF valid.error # Undefined THEN Step("done", <<Reject(valid.error)>>)
    ELSE personalSignFallThrough(stage)

\* personalSign with the Authereum message at the end of the chain
personalSignNextWrongReason(stage, valid, result) ==
    IF valid.threw THEN Step("hung", <<>>)
    ELSE IF Truthy(valid) THEN Step("done", <<Accept(result)>>)
    ELSE IF stage = "mykeyWalletValid"
    THEN Step("done", <<Reject("invalid sig using Authereum")>>)
    ELSE personalSignFallThrough(stage)

\* personalSign: after the strategy awaited settled with valid.  A strategy
\* that throws leaves the promise unresolved.
personalSignNext(stage, valid, result) ==
    IF valid.threw THEN Step("hung", <<>>)
    ELSE IF Truthy(valid) THEN Step("done", <<Accept(result)>>)
    ELSE CASE stage = "walletLinkValid" ->
                  Step("done", <<Reject("Failed to valid using WalletLink")>>)
           [] stage = "authereumValid" ->
                  Step("done", <<Reject("invalid sig using Authereum")>>)
           [] stage = "ecRecover" -> Step("contractWalletValidate", <<>>)
           [] stage = "contractWalletValidate" ->
                  Step("contractWalletValidate2", <<>>)
           [] stage = "contractWalletValidate2" -> Step("mykeyWalletValid", <<>>)
           [] stage = "mykeyWalletValid" -> Step("done", <<Reject("invalid sig")>>)

\* personalSign starting contractWalletValidate together with ecRecover
StrategyCallsTogether(stage, acc, m, s) ==
    CASE stage = "ecRecover" ->
             <<ecRecoverCall(acc, m, s), contractWalletValidateCall(acc, m, s)>>
      [] stage = "contractWalletValidate" -> <<>>
      [] stage = "contractWalletValidate2" -> <<contractWalletValidate2Call(acc, m, s)>>
      [] stage = "mykeyWalletValid" -> <<mykeyWalletValidCall(acc, m, s)>>
      [] stage = "authereumValid" -> <<authereumValidCall(acc, m, s)>>
      [] OTHER -> <<>>

\* the provider call a strategy issues when invoked
StrategyCalls(stage, acc, m, s) ==
    CASE stage = "ecRecover" -> <<ecRecoverCall(acc, m, s)>>
      [] stage = "contractWalletValidate" -> <<contractWalletValidateCall(acc, m, s)>>
      [] stage = "contractWalletValidate2" -> <<contractWalletValidate2Call(acc, m, s)>>
      [] stage = "mykeyWalletValid" -> <<mykeyWalletValidCall(acc, m, s)>>
      [] stage = "authereumValid" -> <<authereumValidCall(acc, m, s)>>
      [] OTHER -> <<>>

Range(q) == {q[i] : i \in DOMAIN q}

\* the callback of a strategy's provider call: what the promise settles with
StrategyValid(stage, reply, call, acc, m, s) ==
    CASE stage = "ecRecover" -> ecRecoverValid(reply.err, reply.address, acc)
      [] stage = "contractWalletValidate" ->
             contractWalletValidateValid(reply.err, reply.output, call.data)
      [] stage = "contractWalletValidate2" ->
             contractWalletValidate2Valid(reply.err, reply.output, call.data)
      [] stage = "mykeyWalletValid" ->
             mykeyWalletValidValid(reply.err, reply.address, m, s)
      [] stage = "authereumValid" ->
             authereumValidValid(reply.err, reply.output, call.data)

\* the requests that run side by side
Reqs == {1, 2}

\* window before a wallet is injected
NoEnv == [imToken |-> FALSE, ethereum |-> Undefined]

\* The closure of a request: the arguments of personalSign, result and err of
\* its sign callback, and what the request did; envRead is window as the
\* sign callback found it.
NoRequest ==
    [pc |-> "idle", account |-> NoAddress, msg |-> "", walletType |-> Undefined,
     envRead |-> NoEnv, signErr |-> Undefined, sig |-> NoSig, replies |-> <<>>,
     resolved |-> <<>>]

\* what the side-by-side requests are called with and answered
ConcAccounts == {[id |-> 1, upper |-> FALSE], [id |-> 2, upper |-> TRUE]}
ConcWalletTypes == {"WalletLink", "MetaMask"}
ConcSignResponses ==
    {[err |-> "Provider disconnected", result |-> NoSig],
     [err |-> NoErr,
      result |-> [len |-> 65, v |-> 27, signer |-> 1, kind |-> "personal",
                  parity |-> 0]],
     [err |-> NoErr,
      result |-> [len |-> 65, v |-> 0, signer |-> 1, kind |-> "personalKeccak",
                  parity |-> 0]],
     [err |-> NoErr,
      result |-> [len |-> 64, v |-> 27, signer |-> 1, kind |-> "personal",
                  parity |-> 0]]}
ConcReplies(stage) ==
    {Reply("execution reverted", NoAddress, "")}
    \cup CASE stage = "ecRecover" -> {Reply(NoErr, [id |-> 1, upper |-> TRUE], "")}
           [] stage = "mykeyWalletValid" ->
                  {Reply(NoErr, [id |-> 1, upper |-> TRUE], "")}
           [] OTHER -> {Reply(NoErr, NoAddress, "0x1626ba7e")}

\* no function of the second group was called yet
FnInit ==
    /\ fn = "none"
    /\ fnArgs = NoArgs
    /\ fnReply = NoFnReply
    /\ fnOut = NoOut

\* the record of the last call of the second group is dropped
FnReset ==
    /\ fn' = "none"
    /\ fnArgs' = NoArgs
    /\ fnReply' = NoFnReply
    /\ fnOut' = NoOut

\* no request was made
ConcInit ==
    /\ reqs = [r \in Reqs |-> NoRequest]
    /\ order = <<>>
    /\ wire = {}

Init ==
    /\ pc = "idle"
    /\ env \in Envs
    /\ account = NoAddress
    /\ msg = ""
    /\ walletType = Undefined
    /\ signErr = Undefined
    /\ sig = NoSig
    /\ inflight = {}
    /\ calls = <<>>
    /\ invoked = <<>>
    /\ results = <<>>
    /\ replies = <<>>
    /\ resolved = <<>>
    /\ FnInit
    /\ ConcInit

\* personalSign(web3, account, msg, walletType): web3.eth.personal.sign
PersonalSign ==
    /\ pc = "idle"
    /\ fn = "none"
    /\ \E acc \in Addresses, m \in Msgs, wt \in WalletTypes :
         LET call == GatewayCall("personal.sign", acc, m, NoSig, NoData)
         IN  /\ account' = acc
             /\ msg' = m
             /\ walletType' = wt
             /\ inflight' = {call}
             /\ calls' = <<call>>
    /\ pc' = "signing"
    /\ signErr' = Undefined
    /\ sig' = NoSig
    /\ invoked' = <<>>
    /\ results' = <<>>
    /\ replies' = <<>>
    /\ resolved' = <<>>
    /\ UNCHANGED <<env, fnVars, concVars>>

\* the callback of web3.eth.personal.sign; walletLinkValid runs in it
PersonalSignCb ==
    /\ pc = "signing"
    /\ \E resp \in SignResponses :
         LET first == personalSignFirst(resp.err, resp.result, env, walletType)
             local == first.next = "walletLinkValid"
             valid == walletLinkValid(account, msg, resp.result)
             step == IF local
                     THEN personalSignNext("walletLinkValid", valid, resp.result)
                     ELSE first
             issued == StrategyCalls(step.next, account, msg, resp.result)
         IN  /\ signErr' = resp.err
             /\ sig' = resp.result
             /\ invoked' = (IF local THEN <<"walletLinkValid">> ELSE <<>>)
                           \o (IF step.next \in Strategies
                               THEN <<step.next>> ELSE <<>>)
             /\ results' = IF local THEN <<valid>> ELSE <<>>
             /\ replies' = IF local THEN <<NoReply>> ELSE <<>>
             /\ resolved' = step.resolve
             /\ pc' = step.next
             /\ calls' = calls \o issued
             /\ inflight' = Range(issued)
    /\ UNCHANGED <<env, account, msg, walletType, fnVars, concVars>>

\* the callback of call c got reply: the strategy's promise settles with
\* valid and personalSign continues
Settle(stage, c, reply, valid) ==
    LET step == personalSignNext(stage, valid, sig)
        issued == StrategyCalls(step.next, account, msg, sig)
    IN  /\ results' = Append(results, valid)
        /\ replies' = Append(replies, reply)
        /\ resolved' = resolved \o step.resolve
        /\ pc' = step.next
        /\ invoked' = IF step.next \in Strategies
                      THEN Append(invoked, step.next) ELSE invoked
        /\ calls' = calls \o issued
        /\ inflight' = (inflight \ {c}) \cup Range(issued)
        /\ UNCHANGED <<env, account, msg, walletType, signErr, sig, fnVars,
                       concVars>>

\* the call a strategy has in flight
Pending(stage) == {c \in inflight : c \in Range(StrategyCalls(stage, account, msg, sig))}

\* the callback of web3.eth.personal.ecRecover
EcRecoverCb ==
    /\ pc = "ecRecover"
    /\ \E c \in Pending("ecRecover"), resp \in EcRecoverResponses :
         Settle("ecRecover", c, Reply(resp.err, resp.address, ""),
                ecRecoverValid(resp.err, resp.address, account))

\* the callback of web3.eth.call in contractWalletValidate
ContractWalletValidateCb ==
    /\ pc = "contractWalletValidate"
    /\ \E c \in Pending("contractWalletValidate"),
          resp \in IsValidSignatureResponses :
         Settle("contractWalletValidate", c,
                Reply(resp.err, NoAddress, resp.output),
                contractWalletValidateValid(resp.err, resp.output, c.data))

\* the callback of web3.eth.call in contractWalletValidate2
ContractWalletValidate2Cb ==
    /\ pc = "contractWalletValidate2"
    /\ \E c \in Pending("contractWalletValidate2"),
          resp \in IsValidSignatureResponses :
         Settle("contractWalletValidate2", c,
                Reply(resp.err, NoAddress, resp.output),
                contractWalletValidate2Valid(resp.err, resp.output, c.data))

\* the callback of web3.eth.call in mykeyWalletValid.  The provider runs it
\* once: when it throws, resolve is not reached and the promise stays pending.
MykeyWalletValidCb ==
    /\ pc = "mykeyWalletValid"
    /\ \E c \in Pending("mykeyWalletValid"), resp \in GetKeyDataResponses :
         Settle("mykeyWalletValid", c, Reply(resp.err, resp.address, ""),
                mykeyWalletValidValid(resp.err, resp.address, msg, sig))

\* the callback of web3.eth.call in authereumValid
AuthereumValidCb ==
    /\ pc = "authereumValid"
    /\ \E c \in Pending("authereumValid"), resp \in IsValidSignatureResponses :
         Settle("authereumValid", c, Reply(resp.err, NoAddress, resp.output),
                authereumValidValid(resp.err, resp.output, c.data))

\* the record of the last personalSign run is dropped
RunReset ==
    /\ pc' = "idle"
    /\ account' = NoAddress
    /\ msg' = ""
    /\ walletType' = Undefined
    /\ signErr' = Undefined
    /\ sig' = NoSig
    /\ inflight' = {}
    /\ calls' = <<>>
    /\ invoked' = <<>>
    /\ results' = <<>>
    /\ replies' = <<>>
    /\ resolved' = <<>>

\* no call was made, or the last one is forgotten
Quiet == pc = "idle" /\ fn = "none"

\* A call has ended, by resolving, returning or throwing, or can do nothing
\* more: what it did is forgotten and the next call starts afresh.
Forget ==
    /\ pc \in {"done", "hung"} \/ fnOut.kind \in {"return", "throw"}
    /\ RunReset
    /\ FnReset
    /\ UNCHANGED <<env, concVars>>

\* a function of the second group is called
FnCall(f, args) ==
    /\ fn' = f
    /\ fnArgs' = args
    /\ fnReply' = NoFnReply
    /\ fnOut' = PendingOut
    /\ UNCHANGED <<env, runVars, concVars>>

\* the callback of a function of the second group runs and the function ends
FnEnd(reply, out) ==
    /\ fnReply' = reply
    /\ fnOut' = out
    /\ UNCHANGED <<env, runVars, fn, fnArgs, concVars>>

\* sign(web3, account, hash): web3.eth.sign
Sign ==
    /\ Quiet
    /\ FnCall("sign", NoArgs)

\* the callback of web3.eth.sign in sign
SignCb ==
    /\ fn = "sign" /\ fnOut.kind = "pending"
    /\ \E reply \in EthSignReplies :
         FnEnd(reply, signOut(reply.err, reply.sig))

\* signEthereumTx(web3, account, rawTx): sign(web3, account, hash)
SignEthereumTx ==
    /\ Quiet
    /\ \E c \in ChainIds : FnCall("signEthereumTx", [chainId |-> c])

\* the callback of web3.eth.sign in sign, called by signEthereumTx, which
\* continues with the response
SignEthereumTxCb ==
    /\ fn = "signEthereumTx" /\ fnOut.kind = "pending"
    /\ \E reply \in EthSignReplies :
         FnEnd(reply,
               signEthereumTxOut(fnArgs.chainId, signOut(reply.err, reply.sig)))

\* signEip712(web3, account, method, params): sendAsync
SignEip712 ==
    /\ Quiet
    /\ FnCall("signEip712", NoArgs)

\* the callback of sendAsync
SignEip712Cb ==
    /\ fn = "signEip712" /\ fnOut.kind = "pending"
    /\ \E reply \in SendAsyncReplies :
         FnEnd(reply,
               signEip712Out(signEip712Response(reply.err, reply.rpcError,
                                                reply.data)))

\* sendTransaction(web3, tx): web3.eth.sendTransaction
SendTransaction ==
    /\ Quiet
    /\ FnCall("sendTransaction", NoArgs)

\* the callback of web3.eth.sendTransaction
SendTransactionCb ==
    /\ fn = "sendTransaction" /\ fnOut.kind = "pending"
    /\ \E reply \in SendTransactionReplies :
         FnEnd(reply,
               sendTransactionOut(sendTransactionResponse(reply.err,
                                                          reply.data)))

\* the request made last
Latest == order[Len(order)]

\* the arguments kept in variables of the module, which every call overwrites
ClosureShared(r) ==
    [reqs[r] EXCEPT !.account = reqs[Latest].account,
                    !.msg = reqs[Latest].msg,
                    !.walletType = reqs[Latest].walletType,
                    !.sig = reqs[Latest].sig]

\* the variables the callbacks of request r read: the parameters and locals
\* of its own call of personalSign
Closure(r) == reqs[r]

\* request r continues with step, having issued the calls issued, in place
\* of the call w that was answered
ConcContinue(r, w, me, step, issued) ==
    /\ reqs' = [reqs EXCEPT ![r] = [me EXCEPT !.pc = step.next,
                                              !.resolved = @ \o step.resolve]]
    /\ wire' = (wire \ {w}) \cup {[req |-> r, call |-> c] : c \in Range(issued)}
    /\ UNCHANGED <<env, order, runVars, fnVars>>

\* personalSign is called while other requests run
ConcPersonalSign ==
    /\ Len(order) < Cardinality(Reqs)
    /\ \E acc \in ConcAccounts, m \in Msgs, wt \in ConcWalletTypes :
         LET r == Len(order) + 1
         IN  /\ reqs' = [reqs EXCEPT ![r] = [NoRequest EXCEPT
                                                !.pc = "signing",
                                                !.account = acc,
                                                !.msg = m,
                                                !.walletType = wt]]
             /\ order' = Append(order, r)
             /\ wire' = wire \cup
                    {[req |-> r,
                      call |-> GatewayCall("personal.sign", acc, m, NoSig, NoData)]}
    /\ UNCHANGED <<env, runVars, fnVars>>

\* the sign callback of one of the requests
ConcPersonalSignCb ==
    \E w \in wire, resp \in ConcSignResponses :
        /\ w.call.op = "personal.sign"
        /\ LET r == w.req
               me == Closure(r)
               first == personalSignFirst(resp.err, resp.result, env,
                                          me.walletType)
               local == first.next = "walletLinkValid"
               valid == walletLinkValid(me.account, me.msg, resp.result)
               step == IF local
                       THEN personalSignNext("walletLinkValid", valid,
                                             resp.result)
                       ELSE first
               issued == StrategyCalls(step.next, me.account, me.msg,
                                       resp.result)
           IN  ConcContinue(r, w,
                            [reqs[r] EXCEPT !.signErr = resp.err,
                                            !.sig = resp.result,
                                            !.envRead = env],
                            step, issued)

\* the callback of a strategy's provider call in one of the requests
ConcStrategyCb ==
    \E w \in wire :
        /\ w.call.op # "personal.sign"
        /\ LET r == w.req
               me == Closure(r)
               stage == reqs[r].pc
           IN  \E reply \in ConcReplies(stage) :
                   LET valid == StrategyValid(stage, reply, w.call, me.account,
                                              me.msg, me.sig)
                       step == personalSignNext(stage, valid, me.sig)
                       issued == StrategyCalls(step.next, me.account, me.msg,
                                               me.sig)
                   IN  ConcContinue(r, w,
                                    [reqs[r] EXCEPT !.replies = Append(@, reply)],
                                    step, issued)

\* the wallet injects window.ethereum
Inject ==
    /\ env.ethereum = Undefined
    /\ env' = [env EXCEPT !.ethereum = "isImToken"]
    /\ UNCHANGED <<runVars, fnVars, concVars>>

ConcNext ==
    \/ ConcPersonalSign
    \/ ConcPersonalSignCb
    \/ ConcStrategyCb
    \/ Inject

Next ==
    \/ Forget
    \/ PersonalSign
    \/ Sign
    \/ SignCb
    \/ SignEthereumTx
    \/ SignEthereumTxCb
    \/ SignEip712
    \/ SignEip712Cb
    \/ SendTransaction
    \/ SendTransactionCb
    \/ PersonalSignCb
    \/ EcRecoverCb
    \/ ContractWalletValidateCb
    \/ ContractWalletValidate2Cb
    \/ MykeyWalletValidCb
    \/ AuthereumValidCb

Spec == Init /\ [][Next]_vars

\* requests side by side, from a window without a wallet
ConcSpecInit == Init /\ env = NoEnv

ConcSpec == ConcSpecInit /\ [][ConcNext]_vars

----------------------------------------------------------------------------
(* Properties of personalSign *)

\* the order of the generic chain
GenericChain ==
    <<"ecRecover", "contractWalletValidate", "contractWalletValidate2",
      "mykeyWalletValid">>

\* the sign callback ran without an error
SignSucceeded == signErr = NoErr

\* sign succeeded, no imToken environment, no WalletLink or Authereum hint
GenericPath ==
    /\ SignSucceeded
    /\ ~isImToken(env)
    /\ walletType \notin {"WalletLink", "Authereum"}

WalletLinkPath == SignSucceeded /\ ~isImToken(env) /\ walletType = "WalletLink"

AuthereumPath == SignSucceeded /\ ~isImToken(env) /\ walletType = "Authereum"

ImTokenPath == SignSucceeded /\ isImToken(env)

\* an outcome {sig}
IsAccept(o) == o.error = Undefined

\* the strategies of this run that reported Verified
Verified == {i \in DOMAIN results : results[i].result = "true"}

\* a strategy's outcome that is an error of its provider call
IsError(valid) == valid.error # Undefined

\* fromRpcSig or ecrecover fails on the signature
RecoveryFails(hash, s) ==
    fromRpcSigThrows(s) \/ ecrecoverThrows(hash, fromRpcSig(s))

\* C1: on the generic path the strategies are invoked in the order ecRecover,
\* contractWalletValidate, contractWalletValidate2, mykeyWalletValid, and none
\* is invoked after one that reported Verified.
C1_FixedOrderStopAtVerified ==
    GenericPath =>
        /\ Len(invoked) >= 1
        /\ Len(invoked) <= Len(GenericChain)
        /\ invoked = SubSeq(GenericChain, 1, Len(invoked))
        /\ \A i \in Verified : i = Len(invoked)

\* C1 witness: the chain fell through two strategies and the third verified
C1_Witness ==
    /\ GenericPath
    /\ Len(invoked) = 3
    /\ Verified = {3}
    /\ pc = "done"

\* C2 as stated: a run resolves with {sig} only if exactly one strategy
\* reported Verified in it.
C2_AcceptOnlyIfOneVerified ==
    \A k \in DOMAIN resolved :
        IsAccept(resolved[k]) => Cardinality(Verified) = 1

\* C2 amended: a run resolves with {sig} only if it ran in the imToken
\* environment, where no strategy is invoked, or exactly one strategy reported
\* Verified, that strategy being the last one invoked.
C2_AcceptOnlyIfImTokenOrOneVerified ==
    \A k \in DOMAIN resolved :
        IsAccept(resolved[k]) =>
            \/ ImTokenPath /\ invoked = <<>>
            \/ /\ ~isImToken(env)
               /\ Cardinality(Verified) = 1
               /\ Verified = {Len(invoked)}
               /\ Len(results) = Len(invoked)

\* C2 witness: accepted by the second strategy after the first did not verify
C2_Witness ==
    /\ resolved = <<Accept(sig)>>
    /\ Len(invoked) = 2
    /\ Verified = {2}

\* C3: when the provider's sign call reports an error the run resolves with
\* {error: err} for that very error, invokes no strategy and issues no provider
\* call after the sign call, whatever the walletType and the environment.
C3_SignErrorShortCircuits ==
    signErr \in SignErrors =>
        /\ resolved = <<Reject(signErr)>>
        /\ invoked = <<>>
        /\ results = <<>>
        /\ Len(calls) = 1
        /\ inflight = {}
        /\ pc = "done"

\* C3 witness: a sign error under the WalletLink hint in an imToken environment
C3_Witness ==
    /\ signErr = "Provider disconnected"
    /\ walletType = "WalletLink"
    /\ isImToken(env)
    /\ pc = "done"

\* C4: on the generic path a strategy whose provider call returned an error
\* counts as not verified: the next strategy of the chain is invoked, and the
\* run does not resolve before the strategies after it have been tried.
C4_GatewayErrorFallsThrough ==
    GenericPath =>
        \A k \in DOMAIN results :
            IsError(results[k]) /\ k < Len(GenericChain) =>
                /\ Len(invoked) > k
                /\ invoked[k + 1] = GenericChain[k + 1]
                /\ (resolved # <<>> => Len(results) > k)

\* C4 witness: the first three strategies all ended in a provider error and
\* mykeyWalletValid is awaited
C4_Witness ==
    /\ GenericPath
    /\ Len(results) = 3
    /\ \A k \in 1..3 : IsError(results[k])
    /\ pc = "mykeyWalletValid"

C7_AuthereumOnlyRawMessage ==
    AuthereumPath =>
        /\ invoked = <<"authereumValid">>
        /\ Len(calls) = 2
        /\ calls[2].op = "eth.call"
        /\ calls[2].to = account
        /\ calls[2].data._data = [kind |-> "raw", msg |-> msg]
        /\ calls[2].data._signature = sig
        /\ (pc = "authereumValid" => inflight = {calls[2]} /\ resolved = <<>>)
        /\ pc \in {"authereumValid", "done"}
        /\ (pc = "done" =>
              /\ Len(results) = 1
              /\ resolved = IF Truthy(results[1])
                            THEN <<Accept(sig)>>
                            ELSE <<Reject("invalid sig using Authereum")>>)

\* C7 witness: the Authereum call returned an error and the run was rejected
C7_Witness ==
    /\ AuthereumPath
    /\ Len(results) = 1
    /\ IsError(results[1])
    /\ resolved = <<Reject("invalid sig using Authereum")>>

\* C8: in the imToken environment, after a successful sign, the signature is
\* accepted with no strategy invoked and no provider call after the sign call,
\* whatever the walletType.
C8_ImTokenAcceptsUnverified ==
    ImTokenPath =>
        /\ resolved = <<Accept(sig)>>
        /\ invoked = <<>>
        /\ results = <<>>
        /\ Len(calls) = 1
        /\ inflight = {}
        /\ pc = "done"

\* C8 witness: window.ethereum.isImToken alone, under the WalletLink hint,
\* with a signature of the wrong length
C8_Witness ==
    /\ ImTokenPath
    /\ ~env.imToken
    /\ walletType = "WalletLink"
    /\ sig.len # 65
    /\ resolved = <<Accept(sig)>>

\* C9: every run resolves, exactly once: resolve is never called twice, and a
\* run that has no provider call outstanding, so nothing left that could
\* continue it, has resolved.
C9_ResolvesExactlyOnce ==
    /\ Len(resolved) <= 1
    /\ (pc # "idle" /\ inflight = {} => Len(resolved) = 1)

\* C10: a recovery failure is an error value of the strategy: on the generic
\* path, when recovery fails in mykeyWalletValid, the run ends in the rejection
\* of the exhausted chain; on the WalletLink path, when recovery fails in
\* walletLinkValid, the run ends in a rejection delivered to the caller.
C10_RecoveryFailureSurfaced ==
    /\ ( /\ GenericPath
         /\ Len(results) = Len(GenericChain)
         /\ RecoveryFails(hashPersonalMessage(keccak256(toBuffer(msg))), sig) )
       => resolved = <<Reject("invalid sig")>>
    /\ ( /\ WalletLinkPath
         /\ RecoveryFails(hashPersonalMessage(toBuffer(msg)), sig) )
       => /\ Len(resolved) = 1
          /\ ~IsAccept(resolved[1])

----------------------------------------------------------------------------
(* Properties of sign, the transaction functions and concurrent requests *)

\* the recovery id as 27 or 28
NormV(v) == IF v < 27 THEN v + 27 ELSE v

\* the recovery ids a signer returns
SignerVs == {0, 1, 27, 28}

\* C11: a recovery id of 0 or 1 is used as 27 or 28.  sign returns v in
\* {27, 28} for every signer v in {0, 1, 27, 28}, with r and s as sliced, so 0
\* gives what 27 gives and 1 what 28 gives; walletLinkValid and
\* mykeyWalletValid recover with v in {27, 28}: they do not throw, and verify
\* exactly when the signature with 27 or 28 in place of 0 or 1 verifies.
C11_RecoveryIdNormalised ==
    /\ ( /\ fn = "sign"
         /\ fnOut.kind = "return"
         /\ fnReply.err = NoMessage
         /\ fnReply.sig.v \in SignerVs )
       => /\ fnOut.result.v \in {27, 28}
          /\ fnOut.result.v = NormV(fnReply.sig.v)
          /\ fnOut.result.r = Hex(TRUE, fnReply.sig.r)
          /\ fnOut.result.s = Hex(TRUE, fnReply.sig.s)
          /\ fnOut.error = NoMessage
    /\ ( /\ WalletLinkPath
         /\ sig.len = 65 /\ sig.signer # 0 /\ sig.v \in SignerVs )
       => /\ ~results[1].threw
          /\ Truthy(results[1]) <=>
                /\ sig.kind = "personal"
                /\ NormV(sig.v) - 27 = sig.parity
                /\ sig.signer = account.id
    /\ ( /\ GenericPath
         /\ Len(results) = 4
         /\ replies[4].err = NoErr
         /\ sig.len = 65 /\ sig.signer # 0 /\ sig.v \in SignerVs )
       => /\ ~results[4].threw
          /\ Truthy(results[4]) <=>
                /\ sig.kind = "personalKeccak"
                /\ NormV(sig.v) - 27 = sig.parity
                /\ sig.signer = replies[4].address.id

\* C11 witness: the signer returned v = 1 and sign returned v = 28
C11_Witness ==
    /\ fn = "sign"
    /\ fnReply.sig.v = 1
    /\ fnOut.kind = "return"
    /\ fnOut.result.v = 28

\* C12: signEthereumTx, when sign succeeds, returns the serialized envelope
\* with v = the normalized recovery id (27 or 28) + chainId * 2 + 8 and with r
\* and s as sign returned them, for every chain id and signer v in
\* {0, 1, 27, 28}; when sign fails it throws an Error with the message sign
\* returned and nothing is merged or serialized.
C12_Eip155RecoveryId ==
    (fn = "signEthereumTx" /\ fnOut.kind # "pending") =>
        IF fnReply.err = NoMessage
        THEN fnReply.sig.v \in SignerVs =>
                /\ fnOut.kind = "return"
                /\ NormV(fnReply.sig.v) \in {27, 28}
                /\ fnOut.result.v
                     = NormV(fnReply.sig.v) + fnArgs.chainId * 2 + 8
                /\ fnOut.result.r = Hex(TRUE, fnReply.sig.r)
                /\ fnOut.result.s = Hex(TRUE, fnReply.sig.s)
                /\ fnOut.result.chainId = fnArgs.chainId
                /\ fnOut.result.data = "serialized"
        ELSE /\ fnOut.kind = "throw"
             /\ fnOut.errType = "Error"
             /\ fnOut.error = signOut(fnReply.err, fnReply.sig).error
             /\ fnOut.result = NoValue

\* C12 witness: chain id 2 and a signer v of 1 give v = 40
C12_Witness ==
    /\ fn = "signEthereumTx"
    /\ fnArgs.chainId = 2
    /\ fnReply.sig.v = 1
    /\ fnOut.kind = "return"
    /\ fnOut.result.v = 40

\* the message up to its first marker, the whole message when it has none
UpToMarker(m) ==
    IF \E i \in DOMAIN m : m[i] = Marker
    THEN SubSeq(m, 1, (CHOOSE i \in DOMAIN m :
                          m[i] = Marker /\ \A j \in 1..(i - 1) : m[j] # Marker) - 1)
    ELSE m

\* C13: when the sign call fails, sign surfaces the provider's message up to,
\* not including, the first ' at '; a message without ' at ' is surfaced in
\* full, and the surfaced message is not empty unless the provider's message
\* is empty or starts with ' at '.
C13_ErrorMessageUpToMarker ==
    (fn = "sign" /\ fnOut.kind = "return" /\ fnReply.err # NoMessage) =>
        /\ fnOut.error = UpToMarker(fnReply.err)
        /\ (fnReply.err # <<>> /\ fnReply.err[1] # Marker => fnOut.error # <<>>)

\* C14: within one personalSign run at most one provider call is outstanding:
\* each strategy issues at most one call, and only the call issued last can
\* be outstanding, every earlier one having been answered.
C14_OneCallOutstanding ==
    /\ Cardinality(inflight) <= 1
    /\ \A c \in inflight : calls # <<>> /\ c = calls[Len(calls)]
    /\ pc # "idle" =>
          Len(calls) = 1 + Cardinality({i \in DOMAIN invoked :
                                           invoked[i] # "walletLinkValid"})
    /\ \A i \in DOMAIN invoked :
          i < Len(invoked) => Len(results) >= i /\ Len(replies) >= i

\* C14 witness: the third strategy's call is the only one outstanding
C14_Witness ==
    /\ pc = "contractWalletValidate2"
    /\ Len(calls) = 4
    /\ inflight = {calls[4]}
    /\ Len(replies) = 2

\* what the request with closure me resolves with when it runs alone, in the
\* window it found, and the provider answers as me.replies says
RECURSIVE SoloFrom(_, _, _)
SoloFrom(me, stage, i) ==
    IF i > Len(me.replies) THEN <<>>
    ELSE LET call == StrategyCalls(stage, me.account, me.msg, me.sig)[1]
             valid == StrategyValid(stage, me.replies[i], call, me.account,
                                    me.msg, me.sig)
             step == personalSignNext(stage, valid, me.sig)
         IN  step.resolve
             \o (IF step.next \in Strategies
                 THEN SoloFrom(me, step.next, i + 1) ELSE <<>>)

Solo(me) ==
    LET first == personalSignFirst(me.signErr, me.sig, me.envRead, me.walletType)
    IN  IF first.next = "walletLinkValid"
        THEN personalSignNext("walletLinkValid",
                              walletLinkValid(me.account, me.msg, me.sig),
                              me.sig).resolve
        ELSE first.resolve
             \o (IF first.next \in Strategies
                 THEN SoloFrom(me, first.next, 1) ELSE <<>>)

\* the sign callback of the request ran
Answered(r) == reqs[r].pc \notin {"idle", "signing"}

\* the request can do nothing more
Finished(r) == reqs[r].pc \in {"done", "hung"}

\* C15: of two personalSign requests running side by side, with their
\* callbacks interleaved in any order, each resolves with what it resolves
\* with when run alone with the same arguments and the same answers.
C15_RequestsIndependent ==
    \A r \in Reqs : Answered(r) => reqs[r].resolved = Solo(reqs[r])

\* C15 witness: the second request was accepted under WalletLink while the
\* first, for another account, still awaits its last strategy
C15_Witness ==
    /\ reqs[1].pc = "mykeyWalletValid"
    /\ reqs[2].pc = "done"
    /\ reqs[2].walletType = "WalletLink"
    /\ reqs[2].resolved = <<Accept(reqs[2].sig)>>
    /\ reqs[1].account # reqs[2].account

\* one sequence starts the other
IsPrefix(p, q) == Len(p) <= Len(q) /\ p = SubSeq(q, 1, Len(p))

\* two finished requests with the same arguments whose calls were answered
\* alike
SameRun(a, b) ==
    /\ Finished(a) /\ Finished(b)
    /\ reqs[a].account = reqs[b].account
    /\ reqs[a].msg = reqs[b].msg
    /\ reqs[a].walletType = reqs[b].walletType
    /\ reqs[a].signErr = reqs[b].signErr
    /\ reqs[a].sig = reqs[b].sig
    /\ \/ IsPrefix(reqs[a].replies, reqs[b].replies)
       \/ IsPrefix(reqs[b].replies, reqs[a].replies)

\* C16 as stated: personalSign twice, on the same account, message and
\* walletType, with the provider answering alike, resolves alike.
C16_SameInputsSameOutcome ==
    \A a, b \in Reqs : SameRun(a, b) => reqs[a].resolved = reqs[b].resolved

\* C16 amended: personalSign twice, on the same account, message and
\* walletType, with the provider answering alike and window.imToken,
\* window.ethereum.isImToken the same at both sign callbacks, resolves alike.
C16_SameInputsSameWindowSameOutcome ==
    \A a, b \in Reqs :
        SameRun(a, b) /\ isImToken(reqs[a].envRead) = isImToken(reqs[b].envRead)
        => reqs[a].resolved = reqs[b].resolved

\* C16 witness: two requests alike, answered alike in the same window, both
\* rejected at the end of the chain
C16_Witness ==
    /\ SameRun(1, 2)
    /\ reqs[1].envRead = reqs[2].envRead
    /\ Len(reqs[1].replies) = 4
    /\ Len(reqs[2].replies) = 4
    /\ reqs[1].resolved = <<Reject("invalid sig")>>
    /\ reqs[2].resolved = <<Reject("invalid sig")>>

\* C17: on the generic path, when the isValidSignature(bytes32,bytes) call
\* returns the selector of the call-data sent, after ecRecover and
\* contractWalletValidate did not verify, the run is accepted by
\* contractWalletValidate2 and mykeyWalletValid is never invoked; when the
\* isValidSignature(bytes,bytes) call returns its selector, after ecRecover did
\* not verify, the run is accepted by contractWalletValidate.
C17_FallThroughToContractWallet ==
    /\ ( /\ GenericPath
         /\ Len(replies) >= 3
         /\ replies[3].err = NoErr
         /\ replies[3].output = slice10(calls[4].data) )
       => /\ ~Truthy(results[1])
          /\ ~Truthy(results[2])
          /\ Verified = {3}
          /\ invoked = SubSeq(GenericChain, 1, 3)
          /\ calls[4].data.method = "isValidSignature(bytes32,bytes)"
          /\ resolved = <<Accept(sig)>>
          /\ pc = "done"
    /\ ( /\ GenericPath
         /\ Len(replies) >= 2
         /\ replies[2].err = NoErr
         /\ replies[2].output = slice10(calls[3].data) )
       => /\ ~Truthy(results[1])
          /\ Verified = {2}
          /\ invoked = SubSeq(GenericChain, 1, 2)
          /\ calls[3].data.method = "isValidSignature(bytes,bytes)"
          /\ resolved = <<Accept(sig)>>
          /\ pc = "done"

\* C17 witness: ecRecover gave a mismatch, the (bytes,bytes) call an error,
\* the (bytes32,bytes) call its selector, and the run was accepted
C17_Witness ==
    /\ GenericPath
    /\ Len(results) = 3
    /\ results[1] = Resolved(FALSE)
    /\ IsError(results[2])
    /\ replies[3].output = "0x1626ba7e"
    /\ resolved = <<Accept(sig)>>

\* C18: contractWalletValidate, contractWalletValidate2 and authereumValid
\* send their call to the account and report Verified if and only if the call
\* returned without error and the hex of the first decoded output equals the
\* first four bytes of the call-data sent; a call error gives {error}.
C18_SelectorEcho ==
    \A i \in DOMAIN invoked :
        invoked[i] \in {"contractWalletValidate", "contractWalletValidate2",
                        "authereumValid"}
        => /\ calls[i + 1].op = "eth.call"
           /\ calls[i + 1].to = account
           /\ i <= Len(results) =>
                 /\ Truthy(results[i]) <=>
                       /\ replies[i].err = NoErr
                       /\ replies[i].output = slice10(calls[i + 1].data)
                 /\ replies[i].err # NoErr => results[i] = Errored(replies[i].err)
                 /\ ~results[i].threw

\* C18 witness: contractWalletValidate got the magic value of the other
\* variant and did not verify
C18_Witness ==
    /\ GenericPath
    /\ Len(results) >= 2
    /\ replies[2].err = NoErr
    /\ replies[2].output = "0x1626ba7e"
    /\ results[2] = Resolved(FALSE)

\* C19: mykeyWalletValid sends its one call to the registry, never to the
\* account, asking getKeyData(account, 3), and reports Verified if and only if
\* the call succeeded and the address recovered from
\* hashPersonalMessage(keccak256(message)) and the signature is, whatever the
\* case of its letters, the address the registry returned.
C19_MyKeyRegistry ==
    (GenericPath /\ Len(invoked) = 4) =>
        /\ Len(calls) = 5
        /\ calls[5].op = "eth.call"
        /\ calls[5].to = myKeyContract
        /\ calls[5].to # account
        /\ calls[5].data.method = "getKeyData"
        /\ calls[5].data._account = account
        /\ calls[5].data._index = 3
        /\ Len(results) = 4 =>
              Truthy(results[4]) <=>
                 /\ replies[4].err = NoErr
                 /\ ~RecoveryFails(hashPersonalMessage(keccak256(toBuffer(msg))),
                                   sig)
                 /\ sig.kind = "personalKeccak"
                 /\ NormV(sig.v) - 27 = sig.parity
                 /\ sig.signer = replies[4].address.id

\* C19 witness: verified against a registry address written in upper case
\* that is not the account
C19_Witness ==
    /\ GenericPath
    /\ Len(results) = 4
    /\ Truthy(results[4])
    /\ replies[4].address.upper
    /\ replies[4].address.id # account.id
    /\ resolved = <<Accept(sig)>>

\* C20: signEip712 and sendTransaction either return {result} with the
\* provider's result or throw an Error whose message is the provider's error
\* message, also when the provider reports no error and a falsy result.
C20_ResultOrProviderError ==
    (fn \in {"signEip712", "sendTransaction"} /\ fnOut.kind # "pending") =>
        \/ /\ fnOut.kind = "return"
           /\ fnOut.error = NoMessage
           /\ fnOut.result.data = fnReply.data
        \/ /\ fnOut.kind = "throw"
           /\ fnOut.errType = "Error"
           /\ fnOut.error # NoMessage
           /\ fnOut.error \in {fnReply.err, fnReply.rpcError}

====
